---- MODULE Spec2Model ----
(***************************************************************************)
(* Model of backend/index.js: the Telegram initData verifier               *)
(* (isValidTelegramData) and the POST /api/auth/validate handler that      *)
(* synchronises the verified user with the Firestore users collection.     *)
(*                                                                         *)
(* A JavaScript string is a sequence of one-character strings.  A hex      *)
(* HMAC-SHA256 digest is carried as ONE element of such a sequence: the    *)
(* term built by Hmac, which is injective in key and message (HMAC is      *)
(* taken to be collision free).  JavaScript values are records tagged by   *)
(* their type in the field t.                                              *)
(***************************************************************************)
EXTENDS Integers, Sequences, FiniteSets, TLC

VARIABLES
    \* ---- one call of isValidTelegramData and a second, related call ----
    initData,      \* the raw payload of the current call
    botToken,      \* the secret of the current call
    now,           \* Math.floor(Date.now() / 1000) at the current call
    result,        \* what the current call returned, NotCalled before it
    prev,          \* the previous call: [initData, botToken, now, result]
    rel,           \* how the current input was made from the previous one
    \* ---- the server: configuration, Firestore, requests in flight ----
    envToken,      \* process.env.TELEGRAM_BOT_TOKEN
    users,         \* the users collection: document id -> document or NoDoc
    clock,         \* Firestore's server time
    reqs,          \* per request: its position in the handler and its locals
    hist           \* observations of the run (writes and responses), no code reads it

verifierVars == <<initData, botToken, now, result, prev, rel>>
serverVars   == <<envToken, users, clock, reqs, hist>>
vars == <<initData, botToken, now, result, prev, rel,
          envToken, users, clock, reqs, hist>>

----------------------------------------------------------------------------
(* JavaScript values *)

Undefined == [t |-> "undefined"]
JSNull    == [t |-> "null"]
NaN       == [t |-> "NaN"]
JSStr(s)  == [t |-> "string", s |-> s]
JSNum(n)  == [t |-> "number", n |-> n]
JSBool(b) == [t |-> "boolean", b |-> b]
JSObj(f)  == [t |-> "object", f |-> f]

\* ToBoolean, as used by !x, x || y and if (x)
Truthy(v) ==
    CASE v.t = "undefined" -> FALSE
      [] v.t = "null"      -> FALSE
      [] v.t = "NaN"       -> FALSE
      [] v.t = "string"    -> v.s # <<>>
      [] v.t = "number"    -> v.n # 0
      [] v.t = "boolean"   -> v.b
      [] OTHER             -> TRUE

\* a || b
Or(a, b) == IF Truthy(a) THEN a ELSE b

\* a ?? b
Coalesce(a, b) == IF a.t \in {"undefined", "null"} THEN b ELSE a

\* o.name for an object o; undefined for a missing property and for a
\* property read on a number, string or boolean (none of the names read here
\* is a built-in of those types)
Prop(o, name) ==
    IF o.t = "object" /\ name \in DOMAIN o.f THEN o.f[name] ELSE Undefined

----------------------------------------------------------------------------
(* Text *)

\* the printable ASCII characters, code 32 to 126, in code order (the
\* backslash and the backquote, which no input of the model holds, are
\* written <5C> and <60>)
Printable ==
    <<" ", "!", "\"", "#", "$", "%", "&", "'", "(", ")", "*", "+", ",", "-", ".", "/",
      "0", "1", "2", "3", "4", "5", "6", "7", "8", "9", ":", ";", "<", "=", ">", "?",
      "@", "A", "B", "C", "D", "E", "F", "G", "H", "I", "J", "K", "L", "M", "N", "O",
      "P", "Q", "R", "S", "T", "U", "V", "W", "X", "Y", "Z", "[", "<5C>", "]", "^", "_",
      "<60>", "a", "b", "c", "d", "e", "f", "g", "h", "i", "j", "k", "l", "m", "n", "o",
      "p", "q", "r", "s", "t", "u", "v", "w", "x", "y", "z", "{", "|", "}", "~">>

\* U+FFFD, what the UTF-8 decoder gives for a byte that is no character
Replacement == "<FFFD>"

\* the character of a byte produced by percent-decoding
CharOf(n) ==
    IF n >= 32 /\ n - 32 < Len(Printable)
    THEN Printable[n - 31]
    ELSE IF n = 10 THEN "\n"
    ELSE IF n < 32 \/ n = 127
         THEN "<" \o ToString(n) \o ">"
    ELSE Replacement

\* the UTF-16 code unit of a character (a digest element sorts as its first
\* character would, a hex digit; the replacement character as U+FFFD)
CodeOf(c) ==
    IF \E i \in 1..Len(Printable) : Printable[i] = c
    THEN 31 + CHOOSE i \in 1..Len(Printable) : Printable[i] = c
    ELSE IF c = "\n" THEN 10
    ELSE IF c = Replacement THEN 65533
    ELSE 48

\* the characters of s as one TLA+ string
RECURSIVE Flat(_)
Flat(s) == IF s = <<>> THEN "" ELSE Head(s) \o Flat(Tail(s))

\* s.indexOf(c, from - 1) + 1
RECURSIVE IndexFrom(_, _, _)
IndexFrom(s, c, from) ==
    IF from > Len(s) THEN 0
    ELSE IF s[from] = c THEN from
    ELSE IndexFrom(s, c, from + 1)

\* s.indexOf(c) + 1
IndexOf(s, c) == IndexFrom(s, c, 1)

\* s.split(c)
RECURSIVE SplitOn(_, _)
SplitOn(s, c) ==
    LET i == IndexOf(s, c)
    IN  IF i = 0 THEN <<s>>
        ELSE <<SubSeq(s, 1, i - 1)>> \o SplitOn(SubSeq(s, i + 1, Len(s)), c)

\* arr.join(c)
RECURSIVE Join(_, _)
Join(arr, c) ==
    IF arr = <<>> THEN <<>>
    ELSE IF Len(arr) = 1 THEN arr[1]
    ELSE arr[1] \o <<c>> \o Join(Tail(arr), c)

HexDigits == <<"0", "1", "2", "3", "4", "5", "6", "7", "8", "9",
               "A", "B", "C", "D", "E", "F", "a", "b", "c", "d", "e", "f">>

IsHex(c) == \E i \in 1..Len(HexDigits) : HexDigits[i] = c

HexVal(c) ==
    LET i == CHOOSE j \in 1..Len(HexDigits) : HexDigits[j] = c
    IN  IF i <= 16 THEN i - 1 ELSE i - 7

\* percent-decode followed by UTF-8 decode: %XY with two hex digits is the
\* byte XY, a % not followed by two hex digits stays; a byte of 0x80 or more
\* decodes to U+FFFD (multi-byte sequences are outside the model's inputs)
RECURSIVE PercentDecode(_)
PercentDecode(s) ==
    IF s = <<>> THEN <<>>
    ELSE IF s[1] = "%" /\ Len(s) >= 3 /\ IsHex(s[2]) /\ IsHex(s[3])
         THEN <<CharOf(16 * HexVal(s[2]) + HexVal(s[3]))>>
              \o PercentDecode(SubSeq(s, 4, Len(s)))
         ELSE <<s[1]>> \o PercentDecode(Tail(s))

\* application/x-www-form-urlencoded: + is a space
PlusToSpace(s) == [i \in 1..Len(s) |-> IF s[i] = "+" THEN " " ELSE s[i]]

FormDecode(s) == PercentDecode(PlusToSpace(s))

\* key order of URLSearchParams.sort(): by code units, a prefix first
RECURSIVE KeyLess(_, _)
KeyLess(a, b) ==
    IF b = <<>> THEN FALSE
    ELSE IF a = <<>> THEN TRUE
    ELSE IF a[1] = b[1] THEN KeyLess(Tail(a), Tail(b))
    ELSE IF CodeOf(a[1]) # CodeOf(b[1]) THEN CodeOf(a[1]) < CodeOf(b[1])
    ELSE KeyLess(Tail(a), Tail(b))

----------------------------------------------------------------------------
(* URLSearchParams *)

\* one name=value piece of the query: split at the first "="
ParsePair(piece) ==
    LET i == IndexOf(piece, "=")
    IN  IF i = 0
        THEN [key |-> FormDecode(piece), value |-> <<>>]
        ELSE [key   |-> FormDecode(SubSeq(piece, 1, i - 1)),
              value |-> FormDecode(SubSeq(piece, i + 1, Len(piece)))]

\* new URLSearchParams(init): a leading "?" is dropped, empty pieces are skipped
URLSearchParams(init) ==
    LET q      == IF init # <<>> /\ init[1] = "?" THEN Tail(init) ELSE init
        pieces == SelectSeq(SplitOn(q, "&"), LAMBDA p : p # <<>>)
    IN  [i \in 1..Len(pieces) |-> ParsePair(pieces[i])]

\* urlParams.get(name): the value of the first pair of that name, or null
ParamsGet(params, name) ==
    IF \E i \in 1..Len(params) : params[i].key = name
    THEN JSStr(params[CHOOSE i \in 1..Len(params) :
                        /\ params[i].key = name
                        /\ \A j \in 1..(i - 1) : params[j].key # name].value)
    ELSE JSNull

\* urlParams.delete(name): every pair of that name goes
ParamsDelete(params, name) == SelectSeq(params, LAMBDA p : p.key # name)

\* urlParams.sort() left out: the pairs stay in the order of the payload
ParamsUnsorted(params) == params

\* urlParams.sort(): stable, by key
RECURSIVE ParamsSort(_)
ParamsSort(params) ==
    IF params = <<>> THEN <<>>
    ELSE LET m == CHOOSE i \in 1..Len(params) :
                    /\ \A j \in 1..Len(params) : ~KeyLess(params[j].key, params[i].key)
                    /\ \A j \in 1..(i - 1) : KeyLess(params[i].key, params[j].key)
         IN  <<params[m]>>
             \o ParamsSort(SubSeq(params, 1, m - 1) \o SubSeq(params, m + 1, Len(params)))

----------------------------------------------------------------------------
(* JSON.parse and parseInt *)

IsDigit(c) == \E i \in 1..10 : HexDigits[i] = c

\* JSON white space (space and line feed; tab and carriage return are no
\* characters of the model)
RECURSIVE SkipWs(_)
SkipWs(s) ==
    IF s # <<>> /\ s[1] \in {" ", "\n"} THEN SkipWs(Tail(s)) ELSE s

\* the digits at the front of s, read in base 10 onto acc: [n, rest]
RECURSIVE ReadDigits(_, _)
ReadDigits(s, acc) ==
    IF s # <<>> /\ IsDigit(s[1])
    THEN ReadDigits(Tail(s), 10 * acc + HexVal(s[1]))
    ELSE [n |-> acc, rest |-> s]

StartsWith(s, w) == Len(s) >= Len(w) /\ SubSeq(s, 1, Len(w)) = w

JsonFail == [ok |-> FALSE]

\* a JSON integer: 0, or a nonzero digit and more digits, with an optional
\* minus sign; a fraction or an exponent is outside the model and is refused
JsonNumber(s) ==
    LET neg  == s # <<>> /\ s[1] = "-"
        body == IF neg THEN Tail(s) ELSE s
        r    == ReadDigits(body, 0)
        used == Len(body) - Len(r.rest)
    IN  IF used = 0 \/ (used > 1 /\ body[1] = "0") THEN JsonFail
        ELSE IF r.rest # <<>> /\ r.rest[1] \in {".", "e", "E"} THEN JsonFail
        ELSE [ok |-> TRUE, v |-> JSNum(IF neg THEN 0 - r.n ELSE r.n), rest |-> r.rest]

\* a JSON string without escapes, s[1] being its opening quote
JsonString(s) ==
    LET body == Tail(s)
        q    == IndexOf(body, "\"")
        text == SubSeq(body, 1, q - 1)
    IN  IF q = 0 THEN JsonFail
        ELSE IF \E i \in 1..Len(text) : text[i] \in {"\n", "<5C>"} THEN JsonFail
        ELSE [ok |-> TRUE, v |-> JSStr(text), rest |-> SubSeq(body, q + 1, Len(body))]

RECURSIVE JsonValue(_), JsonMembers(_, _), JsonElements(_, _)

\* one JSON value at the front of s (after white space): [ok, v, rest]
JsonValue(s0) ==
    LET s == SkipWs(s0)
    IN  IF s = <<>> THEN JsonFail
        ELSE IF StartsWith(s, <<"n", "u", "l", "l">>)
             THEN [ok |-> TRUE, v |-> JSNull, rest |-> SubSeq(s, 5, Len(s))]
        ELSE IF StartsWith(s, <<"t", "r", "u", "e">>)
             THEN [ok |-> TRUE, v |-> JSBool(TRUE), rest |-> SubSeq(s, 5, Len(s))]
        ELSE IF StartsWith(s, <<"f", "a", "l", "s", "e">>)
             THEN [ok |-> TRUE, v |-> JSBool(FALSE), rest |-> SubSeq(s, 6, Len(s))]
        ELSE IF s[1] = "\"" THEN JsonString(s)
        ELSE IF s[1] = "-" \/ IsDigit(s[1]) THEN JsonNumber(s)
        ELSE IF s[1] = "{"
             THEN LET t == SkipWs(Tail(s))
                  IN  IF t # <<>> /\ t[1] = "}"
                      THEN [ok |-> TRUE, v |-> JSObj(<<>>), rest |-> Tail(t)]
                      ELSE JsonMembers(t, <<>>)
        ELSE IF s[1] = "["
             THEN LET t == SkipWs(Tail(s))
                  IN  IF t # <<>> /\ t[1] = "]"
                      THEN [ok |-> TRUE, v |-> [t |-> "array", a |-> <<>>], rest |-> Tail(t)]
                      ELSE JsonElements(t, <<>>)
        ELSE JsonFail

\* "name": value pairs up to the closing brace, onto the properties acc
\* (a repeated name keeps its last value)
JsonMembers(s0, acc) ==
    LET s == SkipWs(s0)
    IN  IF s = <<>> \/ s[1] # "\"" THEN JsonFail
        ELSE LET k == JsonString(s)
             IN  IF ~k.ok THEN JsonFail
                 ELSE LET c == SkipWs(k.rest)
                      IN  IF c = <<>> \/ c[1] # ":" THEN JsonFail
                          ELSE LET v == JsonValue(Tail(c))
                               IN  IF ~v.ok THEN JsonFail
                                   ELSE LET e   == SkipWs(v.rest)
                                            obj == (Flat(k.v.s) :> v.v) @@ acc
                                        IN  IF e = <<>> THEN JsonFail
                                            ELSE IF e[1] = "}"
                                                 THEN [ok |-> TRUE, v |-> JSObj(obj),
                                                       rest |-> Tail(e)]
                                            ELSE IF e[1] = ","
                                                 THEN JsonMembers(Tail(e), obj)
                                            ELSE JsonFail

\* values up to the closing bracket, onto the elements acc
JsonElements(s0, acc) ==
    LET v == JsonValue(s0)
    IN  IF ~v.ok THEN JsonFail
        ELSE LET e == SkipWs(v.rest)
             IN  IF e = <<>> THEN JsonFail
                 ELSE IF e[1] = "]"
                      THEN [ok |-> TRUE, v |-> [t |-> "array", a |-> Append(acc, v.v)],
                            rest |-> Tail(e)]
                 ELSE IF e[1] = "," THEN JsonElements(Tail(e), Append(acc, v.v))
                 ELSE JsonFail

\* JSON.parse(text): [ok |-> TRUE, v |-> the value], or [ok |-> FALSE] where
\* JSON.parse throws a SyntaxError
JsonParse(text) ==
    LET r == JsonValue(text)
    IN  IF r.ok /\ SkipWs(r.rest) = <<>> THEN [ok |-> TRUE, v |-> r.v] ELSE JsonFail

\* parseInt(text, 10): leading white space, an optional sign, the digits that
\* follow; NaN without a digit
ParseInt(text) ==
    LET s    == SkipWs(text)
        sign == s # <<>> /\ s[1] \in {"+", "-"}
        body == IF sign THEN Tail(s) ELSE s
        r    == ReadDigits(body, 0)
    IN  IF Len(r.rest) = Len(body) THEN NaN
        ELSE JSNum(IF sign /\ s[1] = "-" THEN 0 - r.n ELSE r.n)

----------------------------------------------------------------------------
(* isValidTelegramData *)

\* the names the verifier looks up
HASH      == <<"h", "a", "s", "h">>
USER      == <<"u", "s", "e", "r">>
AUTH_DATE == <<"a", "u", "t", "h", "_", "d", "a", "t", "e">>

\* crypto.createHmac('sha256', key).update(msg).digest(): the digest as a
\* term, one digest per (key, msg)
Hmac(key, msg) == "<hmac " \o key \o " | " \o msg \o ">"

\* .digest('hex'): the hex text of the digest, carried as one element
HexOf(digest) == <<digest>>

EXPIRATION_SECONDS == 24 * 3600

\* lines 44-58 with the return of line 53 in force: an auth_date older than
\* EXPIRATION_SECONDS ends the call
AuthDateCheckEnforced(urlParams, currentTimestamp) ==
    LET authDate == ParamsGet(urlParams, AUTH_DATE)
    IN  IF Truthy(authDate)
        THEN LET parsed   == ParseInt(authDate.s)
                 tooOld   == /\ parsed # NaN
                             /\ currentTimestamp - parsed.n > EXPIRATION_SECONDS
             IN  [returns |-> tooOld,
                  warning |-> IF tooOld THEN "older than 24 hours" ELSE "none"]
        ELSE [returns |-> FALSE, warning |-> "auth_date missing"]

\* lines 44-58: the age of auth_date is looked at and only logged.  The
\* outcome is what the block does to the call: the warning it logs, and
\* whether it returns (it never does: the return is commented out)
AuthDateCheck(urlParams, currentTimestamp) ==
    LET authDate == ParamsGet(urlParams, AUTH_DATE)
    IN  IF Truthy(authDate)
        THEN LET parsed   == ParseInt(authDate.s)
                 tooOld   == /\ parsed # NaN
                             /\ currentTimestamp - parsed.n > EXPIRATION_SECONDS
             IN  [returns |-> FALSE,
                  warning |-> IF tooOld THEN "older than 24 hours" ELSE "none"]
        ELSE [returns |-> FALSE, warning |-> "auth_date missing"]

\* lines 60-66 without the sort of line 61
DataCheckStringUnsorted(urlParams) ==
    Join([i \in 1..Len(urlParams) |->
            urlParams[i].key \o <<"=">> \o urlParams[i].value], "\n")

\* lines 60-66: the sorted pairs as key=value lines
DataCheckString(urlParams) ==
    LET sorted       == ParamsSort(urlParams)
        dataCheckArr == [i \in 1..Len(sorted) |->
                            sorted[i].key \o <<"=">> \o sorted[i].value]
    IN  Join(dataCheckArr, "\n")

\* lines 69-71
CalculatedHash(dataCheckString, token) ==
    LET secretKey == Hmac("WebAppData", token)
    IN  HexOf(Hmac(secretKey, Flat(dataCheckString)))

\* line 74 written as an assignment, if (calculatedHash = hash): true for
\* every non-empty hash
HashAssigned(calculatedHash, hash) == hash # <<>>

\* line 74: calculatedHash === hash
HashMatches(calculatedHash, hash) == calculatedHash = hash

\* lines 76-89: the user value of a payload whose hash matched
ExtractUser(urlParams) ==
    LET userJson == ParamsGet(urlParams, USER)
    IN  IF Truthy(userJson)
        THEN LET parsed == JsonParse(userJson.s)
             IN  IF parsed.ok
                 THEN [valid |-> TRUE, user |-> parsed.v]
                 ELSE [valid |-> FALSE, user |-> JSNull,
                       error |-> "Invalid user data format"]
        ELSE [valid |-> FALSE, user |-> JSNull, error |-> "User data missing"]

\* lines 30-33: !initData || !botToken
MissingArgument(data, token) == data = <<>> \/ token = ""

\* the verifier with lines 76-89 moved above the comparison of line 74: the
\* user value is looked at before the hash
isValidTelegramDataUserFirst(data, token, currentTimestamp) ==
    IF MissingArgument(data, token)
    THEN [valid |-> FALSE, user |-> JSNull]
    ELSE LET parsed    == URLSearchParams(data)
             hash      == ParamsGet(parsed, HASH)
             urlParams == ParamsDelete(parsed, HASH)
             extracted == ExtractUser(urlParams)
         IN  IF ~Truthy(hash)
             THEN [valid |-> FALSE, user |-> JSNull, error |-> "Hash missing"]
             ELSE IF ~extracted.valid
             THEN extracted
             ELSE IF HashMatches(CalculatedHash(DataCheckString(urlParams), token), hash.s)
             THEN extracted
             ELSE [valid |-> FALSE, user |-> JSNull, error |-> "Hash mismatch"]

\* isValidTelegramData(initData, botToken), with the clock it reads as a
\* third argument.  No step of the try block throws on the model's inputs,
\* so the catch of lines 98-101 returns nothing here.
isValidTelegramData(data, token, currentTimestamp) ==
    IF MissingArgument(data, token)
    THEN [valid |-> FALSE, user |-> JSNull]
    ELSE LET parsed    == URLSearchParams(data)
             hash      == ParamsGet(parsed, HASH)
             urlParams == ParamsDelete(parsed, HASH)
             dateCheck == AuthDateCheck(urlParams, currentTimestamp)
         IN  IF ~Truthy(hash)
             THEN [valid |-> FALSE, user |-> JSNull, error |-> "Hash missing"]
             ELSE IF dateCheck.returns
             THEN [valid |-> FALSE, user |-> JSNull, error |-> "Data expired"]
             ELSE IF HashMatches(CalculatedHash(DataCheckString(urlParams), token), hash.s)
             THEN ExtractUser(urlParams)
             ELSE [valid |-> FALSE, user |-> JSNull, error |-> "Hash mismatch"]


----------------------------------------------------------------------------
(* The payloads the verifier is called with *)

MaxPairs == 2          \* pairs besides hash in a generated payload

\* the application/x-www-form-urlencoded serializer, which is how a client
\* writes a pair into initData: letters, digits and * - . _ stay, a space is
\* "+", any other character is %XY in upper-case hex; a digest stays
EncodeChar(c) ==
    LET n == CodeOf(c)
    IN  IF Len(c) # 1 THEN <<c>>
        ELSE IF c = " " THEN <<"+">>
        ELSE IF IsDigit(c) \/ (n >= 65 /\ n <= 90) \/ (n >= 97 /\ n <= 122)
                \/ c \in {"*", "-", ".", "_"}
             THEN <<c>>
        ELSE <<"%", HexDigits[(n \div 16) + 1], HexDigits[(n % 16) + 1]>>

RECURSIVE FormEncode(_)
FormEncode(s) == IF s = <<>> THEN <<>> ELSE EncodeChar(s[1]) \o FormEncode(Tail(s))

\* the raw payload of a list of pairs
Serialize(pairs) ==
    Join([i \in 1..Len(pairs) |->
            FormEncode(pairs[i].key) \o <<"=">> \o FormEncode(pairs[i].value)], "&")

\* the signature the issuing platform puts on a list of pairs: the pairs in
\* key order (pairs of one key in the order given) as key=value lines, under
\* HMAC(HMAC("WebAppData", secret), .)
RECURSIVE InsertByKey(_, _)
InsertByKey(sorted, p) ==
    IF sorted = <<>> THEN <<p>>
    ELSE IF KeyLess(p.key, sorted[1].key) THEN <<p>> \o sorted
    ELSE <<sorted[1]>> \o InsertByKey(Tail(sorted), p)

RECURSIVE SortedByKey(_)
SortedByKey(pairs) ==
    IF pairs = <<>> THEN <<>>
    ELSE InsertByKey(SortedByKey(SubSeq(pairs, 1, Len(pairs) - 1)), pairs[Len(pairs)])

RECURSIVE Lines(_)
Lines(pairs) ==
    IF pairs = <<>> THEN <<>>
    ELSE pairs[1].key \o <<"=">> \o pairs[1].value
         \o (IF Len(pairs) = 1 THEN <<>> ELSE <<"\n">> \o Lines(Tail(pairs)))

Signature(pairs, secret) ==
    <<Hmac(Hmac("WebAppData", secret), Flat(Lines(SortedByKey(pairs))))>>

Pair(k, v) == [key |-> k, value |-> v]

\* user values: a claim, null, a truncated object
UserGood      == <<"{", "\"", "i", "d", "\"", ":", "1", "}">>
UserNull      == <<"n", "u", "l", "l">>
UserTruncated == <<"{", "\"", "i", "d", "\"", ":", "1">>

AuthDateText == <<"1", "7", "0", "0", "0", "0", "0", "0", "0", "0">>

\* the pairs a generated payload is made of
PairPool ==
    { Pair(USER, UserGood), Pair(USER, UserNull), Pair(USER, UserTruncated),
      Pair(AUTH_DATE, AuthDateText) }

RECURSIVE SeqsUpTo(_, _)
SeqsUpTo(S, n) ==
    IF n = 0 THEN {<<>>}
    ELSE LET shorter == SeqsUpTo(S, n - 1)
         IN  shorter \cup {Append(q, x) : q \in shorter, x \in S}

PairLists == SeqsUpTo(PairPool, MaxPairs)

Secret      == "S3cr3t"
OtherSecret == "0ther"

\* the ways a payload carries its hash
HashShapes == {"none", "last", "forged", "empty", "twice", "blank"}

WithHash(pairs, shape) ==
    LET good == Pair(HASH, Signature(pairs, Secret))
        bad  == Pair(HASH, Signature(pairs, OtherSecret))
    IN  CASE shape = "none"   -> pairs
          [] shape = "last"   -> Append(pairs, good)
          [] shape = "forged" -> Append(pairs, bad)
          [] shape = "empty"  -> Append(pairs, Pair(HASH, <<>>))
          [] shape = "twice"  -> <<good>> \o Append(pairs, bad)
          [] shape = "blank"  -> Append(pairs, Pair(HASH, Signature(pairs, "")))

Payloads == {Serialize(WithHash(l, h)) : l \in PairLists, h \in HashShapes}

Tokens == {Secret, ""}

\* seconds since the epoch: the first call is within a day of AuthDateText,
\* a later call is not
Times == {1700000100, 1700090000}

FirstTime == CHOOSE t \in Times : \A u \in Times : t <= u

\* the characters a tampering puts in place of one
MutationChars == {"b", "&", "=", "%", "\n"}

----------------------------------------------------------------------------
(* The server: Firestore and POST /api/auth/validate *)

MaxRequests == 2       \* requests the server receives

\* no call of the verifier yet; no call before the current one
NotCalled == [called |-> FALSE]
NoCall    == [called |-> FALSE]

Requests == 1..MaxRequests

\* String(v) for a collection with one document: whatever the value, "1"
StringOfOne(v) == "1"

\* String(v)
StringOf(v) ==
    CASE v.t = "number"    -> ToString(v.n)
      [] v.t = "string"    -> Flat(v.s)
      [] v.t = "undefined" -> "undefined"
      [] v.t = "null"      -> "null"
      [] v.t = "NaN"       -> "NaN"
      [] v.t = "boolean"   -> IF v.b THEN "true" ELSE "false"
      [] OTHER             -> "[object Object]"

\* claims: user 1; user 1 with a username; user 2; user 1 with an empty
\* username and a first name
UserNamed == <<"{", "\"", "i", "d", "\"", ":", "1", ",",
               "\"", "u", "s", "e", "r", "n", "a", "m", "e", "\"", ":",
               "\"", "a", "n", "n", "\"", "}">>

UserOther == <<"{", "\"", "i", "d", "\"", ":", "2", "}">>

UserBlankName ==
    <<"{", "\"", "i", "d", "\"", ":", "1", ",",
      "\"", "u", "s", "e", "r", "n", "a", "m", "e", "\"", ":", "\"", "\"", ",",
      "\"", "f", "i", "r", "s", "t", "_", "n", "a", "m", "e", "\"", ":",
      "\"", "A", "l", "\"", "}">>

\* the request bodies: without initData; a signed claim; a signed claim with
\* a username; a forged hash; a signed payload whose user is null; a signed
\* claim of another user; a signed claim with an empty username
Bodies ==
    { JSObj(<<>>),
      JSObj([initData |-> JSStr(Serialize(WithHash(<<Pair(USER, UserGood)>>, "last")))]),
      JSObj([initData |-> JSStr(Serialize(WithHash(<<Pair(USER, UserNamed)>>, "last")))]),
      JSObj([initData |-> JSStr(Serialize(WithHash(<<Pair(USER, UserGood)>>, "forged")))]),
      JSObj([initData |-> JSStr(Serialize(WithHash(<<Pair(USER, UserNull)>>, "last")))]),
      JSObj([initData |-> JSStr(Serialize(WithHash(<<Pair(USER, UserOther)>>, "last")))]),
      JSObj([initData |-> JSStr(Serialize(WithHash(<<Pair(USER, UserBlankName)>>, "last")))]) }

\* the documents of the users collection that the bodies name
DocIds == {"1", "2"}

\* nanoid(8): one of the codes it can return
ReferralCodes == {"V1StGXR8", "Z5jdHi6B"}

\* admin.firestore.FieldValue.serverTimestamp(), and the time it becomes
\* when the write commits
ServerTimestamp == [t |-> "serverTimestamp"]
Timestamp(at)   == [t |-> "timestamp", at |-> at]

Resolved(data, at) ==
    [k \in DOMAIN data |-> IF data[k] = ServerTimestamp THEN Timestamp(at) ELSE data[k]]

\* a DocumentSnapshot: exists, and data()
NoDoc == [exists |-> FALSE]
Doc(data) == [exists |-> TRUE, data |-> data]

\* data.name of a plain document object
Field(data, name) == IF name \in DOMAIN data THEN data[name] ELSE Undefined

\* Firestore refuses a write that holds undefined
HoldsUndefined(data) == \E k \in DOMAIN data : data[k] = Undefined

UserText4 == <<"U", "s", "e", "r">>
EnText    == <<"e", "n">>

\* lines 177-183 writing tokens back as well (the value line 189 puts into
\* the response)
UpdateDataWithTokens(telegramUser, existingData) ==
    [lastLogin    |-> ServerTimestamp,
     username     |-> Or(Or(Prop(telegramUser, "username"), Field(existingData, "username")),
                         JSNull),
     firstName    |-> Or(Prop(telegramUser, "first_name"), Field(existingData, "firstName")),
     lastName     |-> Or(Or(Prop(telegramUser, "last_name"), Field(existingData, "lastName")),
                         JSNull),
     languageCode |-> Or(Prop(telegramUser, "language_code"),
                         Field(existingData, "languageCode")),
     tokens       |-> Coalesce(Field(existingData, "tokens"), JSNum(0))]

\* lines 177-183 with the operands of || exchanged: the stored value first
UpdateDataStoredFirst(telegramUser, existingData) ==
    [lastLogin    |-> ServerTimestamp,
     username     |-> Or(Or(Field(existingData, "username"), Prop(telegramUser, "username")),
                         JSNull),
     firstName    |-> Or(Field(existingData, "firstName"), Prop(telegramUser, "first_name")),
     lastName     |-> Or(Or(Field(existingData, "lastName"), Prop(telegramUser, "last_name")),
                         JSNull),
     languageCode |-> Or(Field(existingData, "languageCode"),
                         Prop(telegramUser, "language_code"))]

\* lines 177-183: updateData
UpdateData(telegramUser, existingData) ==
    [lastLogin    |-> ServerTimestamp,
     username     |-> Or(Or(Prop(telegramUser, "username"), Field(existingData, "username")),
                         JSNull),
     firstName    |-> Or(Prop(telegramUser, "first_name"), Field(existingData, "firstName")),
     lastName     |-> Or(Or(Prop(telegramUser, "last_name"), Field(existingData, "lastName")),
                         JSNull),
     languageCode |-> Or(Prop(telegramUser, "language_code"),
                         Field(existingData, "languageCode"))]

\* lines 187-190: userProfileData of an existing user
MergedProfile(existingData, updateData) ==
    LET merged == updateData @@ existingData
    IN  [k \in DOMAIN merged \cup {"tokens", "referralsMade"} |->
            IF k \in {"tokens", "referralsMade"}
            THEN Coalesce(Field(merged, k), JSNum(0))
            ELSE merged[k]]

\* lines 195-213: newUserProfile
NewUserProfile(telegramUser, code) ==
    [userId          |-> Prop(telegramUser, "id"),
     username        |-> Or(Prop(telegramUser, "username"), JSNull),
     firstName       |-> Or(Prop(telegramUser, "first_name"), JSStr(UserText4)),
     lastName        |-> Or(Prop(telegramUser, "last_name"), JSNull),
     languageCode    |-> Or(Prop(telegramUser, "language_code"), JSStr(EnText)),
     tokens          |-> JSNum(0),
     referralCode    |-> code,
     referredBy      |-> JSNull,
     referralsMade   |-> JSNum(0),
     createdAt       |-> ServerTimestamp,
     lastLogin       |-> ServerTimestamp,
     connectedWallet |-> JSNull]

\* line 173 answering "new user" whatever was read
NeverExists(userDoc) == FALSE

\* line 173: userDoc.exists
Exists(userDoc) == userDoc.exists

\* a request the server has not received
IdleRequest ==
    [pc               |-> "idle",
     body             |-> Undefined,
     validationResult |-> Undefined,
     telegramUser     |-> Undefined,
     userIdString     |-> "",
     userDoc          |-> NoDoc,
     data             |-> <<>>,
     responses        |-> <<>>]

\* what is observed of a request: the requests answered before it came, the
\* write it made (set or update), the document before and after that write,
\* the documents it read, and the documents its write changed
Unobserved == [after |-> {}, wrote |-> "nothing", pre |-> NoDoc, post |-> NoDoc,
               read |-> {}, touched |-> {}]

ServerStart ==
    /\ users = [d \in DocIds |-> NoDoc]
    /\ clock = 1
    /\ reqs = [r \in Requests |-> IdleRequest]
    /\ hist = [of |-> [r \in Requests |-> Unobserved], sets |-> [d \in DocIds |-> 0]]

VerifierAtRest ==
    /\ initData = <<>>
    /\ botToken = ""
    /\ now = FirstTime
    /\ result = NotCalled
    /\ prev = NoCall
    /\ rel = "first"

Init ==
    /\ envToken \in Tokens
    /\ ServerStart
    /\ VerifierAtRest

\* res.status(status).json(body), ending the handler
Respond(r, status, body) ==
    [reqs[r] EXCEPT !.pc = "done",
                    !.responses = Append(@, [status |-> status, body |-> body])]

Answered == {q \in Requests : reqs[q].responses # <<>>}

\* lines 140-169: the handler up to its first await
Receive(r) ==
    /\ reqs[r].pc = "idle"
    /\ \A q \in Requests : q < r => reqs[q].pc # "idle"
    /\ \E body \in Bodies :
         LET data   == Prop(body, "initData")
             got    == [reqs[r] EXCEPT !.body = body]
             result_ == isValidTelegramData(data.s, envToken, now)
             user   == result_.user
         IN  reqs' = [reqs EXCEPT ![r] =
                 IF ~Truthy(data)
                 THEN [Respond(r, 400, [message |-> "Missing initData"])
                          EXCEPT !.body = body]
                 ELSE IF envToken = ""
                 THEN [Respond(r, 500, [message |-> "Server configuration error"])
                          EXCEPT !.body = body]
                 ELSE IF ~result_.valid \/ ~Truthy(user)
                 THEN [Respond(r, 401,
                               [message |-> "Invalid or expired initData",
                                error   |-> IF "error" \in DOMAIN result_
                                            THEN result_.error
                                            ELSE "Validation failed"])
                          EXCEPT !.body = body, !.validationResult = result_]
                 ELSE [got EXCEPT !.pc = "get:pending",
                                  !.validationResult = result_,
                                  !.telegramUser = user,
                                  !.userIdString = StringOf(Prop(user, "id"))]]
    /\ hist' = [hist EXCEPT !.of[r].after = Answered]
    /\ UNCHANGED <<envToken, users, clock, verifierVars>>

\* line 169: Firestore reads the document and the promise of get() resolves
StoreGet(r) ==
    /\ reqs[r].pc = "get:pending"
    /\ reqs' = [reqs EXCEPT ![r].pc = "get:resolved",
                            ![r].userDoc = users[reqs[r].userIdString]]
    /\ hist' = [hist EXCEPT !.of[r].read = @ \cup {reqs[r].userIdString}]
    /\ UNCHANGED <<envToken, users, clock, verifierVars>>

\* line 169: the read fails and the promise of get() rejects
StoreGetFails(r) ==
    /\ reqs[r].pc = "get:pending"
    /\ reqs' = [reqs EXCEPT ![r].pc = "get:rejected"]
    /\ UNCHANGED <<envToken, users, clock, hist, verifierVars>>

\* lines 171-185 and 192-215: the handler from the resolved get() to the
\* write it awaits next; lines 227-230 for a rejected get()
AfterGet(r) ==
    /\ \/ /\ reqs[r].pc = "get:resolved"
          /\ Exists(reqs[r].userDoc)
          /\ reqs' = [reqs EXCEPT
                        ![r].pc = "update:pending",
                        ![r].data = UpdateData(reqs[r].telegramUser, reqs[r].userDoc.data)]
       \/ /\ reqs[r].pc = "get:resolved"
          /\ ~Exists(reqs[r].userDoc)
          /\ \E code \in ReferralCodes :
                reqs' = [reqs EXCEPT
                           ![r].pc = "set:pending",
                           ![r].data = NewUserProfile(reqs[r].telegramUser, JSStr(code))]
       \/ /\ reqs[r].pc = "get:rejected"
          /\ reqs' = [reqs EXCEPT ![r] =
                        Respond(r, 500,
                            [message |-> "Internal server error interacting with database."])]
    /\ UNCHANGED <<envToken, users, clock, hist, verifierVars>>

\* userRef.update(data) as Firestore applies it: the named fields of an
\* existing document are replaced, the others stay
Updated(doc, data, at) == Doc(Resolved(data, at) @@ doc.data)

\* userRef.set(data) as Firestore applies it: the document is data
Written(data, at) == Doc(Resolved(data, at))

\* the documents that differ between two states of the collection
Changed(before, after) == {id \in DocIds : before[id] # after[id]}

\* line 185: Firestore commits the update and the promise resolves; an
\* update of a missing document, or of undefined, is refused
StoreUpdate(r) ==
    LET id == reqs[r].userIdString
    IN  /\ reqs[r].pc = "update:pending"
        /\ IF users[id].exists /\ ~HoldsUndefined(reqs[r].data)
           THEN /\ users' = [users EXCEPT ![id] = Updated(@, reqs[r].data, clock)]
                /\ clock' = clock + 1
                /\ reqs' = [reqs EXCEPT ![r].pc = "update:resolved"]
                /\ hist' = [hist EXCEPT !.of[r].wrote = "update",
                                        !.of[r].pre = users[id],
                                        !.of[r].post = users'[id],
                                        !.of[r].touched = Changed(users, users')]
           ELSE /\ reqs' = [reqs EXCEPT ![r].pc = "update:rejected"]
                /\ UNCHANGED <<users, clock, hist>>
        /\ UNCHANGED <<envToken, verifierVars>>

\* line 215: Firestore commits the set and the promise resolves; a document
\* that holds undefined is refused
StoreSet(r) ==
    LET id == reqs[r].userIdString
    IN  /\ reqs[r].pc = "set:pending"
        /\ IF ~HoldsUndefined(reqs[r].data)
           THEN /\ users' = [users EXCEPT ![id] = Written(reqs[r].data, clock)]
                /\ clock' = clock + 1
                /\ reqs' = [reqs EXCEPT ![r].pc = "set:resolved"]
                /\ hist' = [hist EXCEPT !.of[r].wrote = "set",
                                        !.of[r].pre = users[id],
                                        !.of[r].post = users'[id],
                                        !.of[r].touched = Changed(users, users'),
                                        !.sets[id] = @ + 1]
           ELSE /\ reqs' = [reqs EXCEPT ![r].pc = "set:rejected"]
                /\ UNCHANGED <<users, clock, hist>>
        /\ UNCHANGED <<envToken, verifierVars>>

\* lines 185, 215: the write fails and its promise rejects
StoreWriteFails(r) ==
    /\ reqs[r].pc \in {"update:pending", "set:pending"}
    /\ reqs' = [reqs EXCEPT ![r].pc =
                  IF @ = "update:pending" THEN "update:rejected" ELSE "set:rejected"]
    /\ UNCHANGED <<envToken, users, clock, hist, verifierVars>>

\* lines 186-190, 216-230 with a catch that lets the handler go on: a
\* rejected write is answered like a resolved one
AfterWriteAnswersOk(r) ==
    /\ \/ /\ reqs[r].pc \in {"update:resolved", "update:rejected"}
          /\ reqs' = [reqs EXCEPT ![r] =
                Respond(r, 200,
                    [message |-> "User validated and profile retrieved/created.",
                     user    |-> MergedProfile(reqs[r].userDoc.data, reqs[r].data)])]
       \/ /\ reqs[r].pc \in {"set:resolved", "set:rejected"}
          /\ reqs' = [reqs EXCEPT ![r] =
                Respond(r, 200,
                    [message |-> "User validated and profile retrieved/created.",
                     user    |-> reqs[r].data])]
    /\ UNCHANGED <<envToken, users, clock, hist, verifierVars>>

\* lines 186-190, 216-225: the handler after its write, sending the
\* profile; lines 227-230 for a rejected write
AfterWrite(r) ==
    /\ \/ /\ reqs[r].pc = "update:resolved"
          /\ reqs' = [reqs EXCEPT ![r] =
                Respond(r, 200,
                    [message |-> "User validated and profile retrieved/created.",
                     user    |-> MergedProfile(reqs[r].userDoc.data, reqs[r].data)])]
       \/ /\ reqs[r].pc = "set:resolved"
          /\ reqs' = [reqs EXCEPT ![r] =
                Respond(r, 200,
                    [message |-> "User validated and profile retrieved/created.",
                     user    |-> reqs[r].data])]
       \/ /\ reqs[r].pc \in {"update:rejected", "set:rejected"}
          /\ reqs' = [reqs EXCEPT ![r] =
                Respond(r, 500,
                    [message |-> "Internal server error interacting with database."])]
    /\ UNCHANGED <<envToken, users, clock, hist, verifierVars>>

\* another writer of the users collection (the collection is a shared
\* Firestore database): it credits tokens to a user and links a wallet
AnotherWriter(id) ==
    /\ users[id].exists
    /\ users[id].data.tokens = JSNum(0)
    /\ users' = [users EXCEPT ![id].data.tokens = JSNum(10),
                              ![id].data.connectedWallet = JSStr(<<"E", "Q">>)]
    /\ clock' = clock + 1
    /\ UNCHANGED <<envToken, reqs, hist, verifierVars>>

Next ==
    \/ \E r \in Requests :
          \/ Receive(r)
          \/ StoreGet(r)
          \/ StoreGetFails(r)
          \/ AfterGet(r)
          \/ StoreUpdate(r)
          \/ StoreSet(r)
          \/ StoreWriteFails(r)
          \/ AfterWrite(r)
    \/ \E id \in DocIds : AnotherWriter(id)

Spec == Init /\ [][Next]_vars

\* one request at a time, and no other writer: a request is received only
\* when every request before it has been answered
NoneInFlight == \A q \in Requests : reqs[q].pc \in {"idle", "done"}

SeqNext ==
    \E r \in Requests :
        \/ NoneInFlight /\ Receive(r)
        \/ StoreGet(r)
        \/ StoreGetFails(r)
        \/ AfterGet(r)
        \/ StoreUpdate(r)
        \/ StoreSet(r)
        \/ StoreWriteFails(r)
        \/ AfterWrite(r)

SeqSpec == Init /\ [][SeqNext]_vars

----------------------------------------------------------------------------
(* Calls of the verifier *)

VInit ==
    /\ initData \in Payloads
    /\ botToken \in Tokens
    /\ now = FirstTime
    /\ result = NotCalled
    /\ prev = NoCall
    /\ rel = "first"
    /\ envToken = Secret
    /\ ServerStart

\* the verifier is called on the current input and returns
Call ==
    /\ result = NotCalled
    /\ result' = [called |-> TRUE, verdict |-> isValidTelegramData(initData, botToken, now)]
    /\ UNCHANGED <<initData, botToken, now, prev, rel, serverVars>>

Remember == [called |-> TRUE, initData |-> initData, botToken |-> botToken,
             now |-> now, verdict |-> result.verdict]

\* the payload carries the signature of its own pairs under the secret: the
\* value of its hash pair (the first, if there are several) is the signature
\* of the pairs that are not hash pairs
CorrectlySigned(data, secret) ==
    LET parsed == URLSearchParams(data)
    IN  ParamsGet(parsed, HASH) = JSStr(Signature(ParamsDelete(parsed, HASH), secret))

\* a hex digest inside a payload (one element, longer than a character)
IsDigest(c) == Len(c) > 1

\* one character outside the hash value of a correctly signed payload is
\* replaced, and the payload is presented again
Tamper ==
    /\ rel = "first"
    /\ result # NotCalled
    /\ botToken # ""
    /\ CorrectlySigned(initData, botToken)
    /\ \E i \in 1..Len(initData), c \in MutationChars :
          /\ ~IsDigest(initData[i])
          /\ initData[i] # c
          /\ initData' = [initData EXCEPT ![i] = c]
    /\ prev' = Remember
    /\ rel' = "tampered"
    /\ result' = NotCalled
    /\ UNCHANGED <<botToken, now, serverVars>>

\* two of the key=value pieces of the payload change places, and the
\* payload is presented again
Reorder ==
    /\ rel = "first"
    /\ result # NotCalled
    /\ LET pieces == SplitOn(initData, "&")
       IN  \E i, j \in 1..Len(pieces) :
              /\ i < j
              /\ pieces[i] # pieces[j]
              /\ initData' = Join([pieces EXCEPT ![i] = pieces[j], ![j] = pieces[i]], "&")
    /\ prev' = Remember
    /\ rel' = "reordered"
    /\ result' = NotCalled
    /\ UNCHANGED <<botToken, now, serverVars>>

\* time passes, and the same payload is presented again
Later ==
    /\ rel = "first"
    /\ result # NotCalled
    /\ \E t \in Times : t > now /\ now' = t
    /\ prev' = Remember
    /\ rel' = "later"
    /\ result' = NotCalled
    /\ UNCHANGED <<initData, botToken, serverVars>>

VNext == Call \/ Tamper \/ Reorder \/ Later

VSpec == VInit /\ [][VNext]_vars

----------------------------------------------------------------------------
(* Claims about isValidTelegramData *)

Verdict == result.verdict

HashMismatch == [valid |-> FALSE, user |-> JSNull, error |-> "Hash mismatch"]
HashMissing  == [valid |-> FALSE, user |-> JSNull, error |-> "Hash missing"]

\* the pairs of a payload that are not hash pairs, and their key=value lines
\* in key order
OtherPairs(data) == ParamsDelete(URLSearchParams(data), HASH)
SignedText(data) == Lines(SortedByKey(OtherPairs(data)))

\* the value of the (first) user pair, and the JSON value it decodes to
UserText(data) == ParamsGet(URLSearchParams(data), USER)
HasParsableUser(data) == Truthy(UserText(data)) /\ JsonParse(UserText(data).s).ok
EmbeddedClaim(data) == JsonParse(UserText(data).s).v

WellFormedClaim(u) == u.t = "object" /\ "id" \in DOMAIN u.f

\* C2: a verdict with valid = true carries a well-formed claim (an object
\* with an id), and a verdict with valid = false carries none.
C2_ValidIffClaim ==
    result.called =>
        /\ Verdict.valid => WellFormedClaim(Verdict.user)
        /\ ~Verdict.valid => Verdict.user = JSNull

\* C3, as stated: every payload that carries the signature of its own pairs
\* under the secret is found valid, with the embedded claim.
C3_SignedIsValid ==
    result.called /\ CorrectlySigned(initData, botToken) =>
        /\ Verdict.valid
        /\ HasParsableUser(initData)
        /\ Verdict.user = EmbeddedClaim(initData)

\* C3, amended: a non-empty payload that carries the signature of its own
\* pairs under a non-empty secret, and has a user pair whose (first) value is
\* non-empty JSON text, is found valid, with that value decoded as the claim.
C3_SignedWithUserIsValid ==
    /\ result.called
    /\ ~MissingArgument(initData, botToken)
    /\ CorrectlySigned(initData, botToken)
    /\ HasParsableUser(initData)
    => Verdict = [valid |-> TRUE, user |-> EmbeddedClaim(initData)]

C3_Witness ==
    /\ result.called
    /\ CorrectlySigned(initData, botToken)
    /\ Verdict = [valid |-> TRUE, user |-> JSObj([id |-> JSNum(1)])]
    /\ Len(OtherPairs(initData)) = 2

C5_OrderIrrelevant ==
    rel = "reordered" /\ result.called => Verdict = prev.verdict

DistinctKeys(params) ==
    \A i, j \in 1..Len(params) : params[i].key = params[j].key => i = j

\* C5, amended: a payload in which no key occurs twice and the same pairs in
\* another order get the same verdict.
C5_OrderIrrelevantDistinctKeys ==
    /\ rel = "reordered"
    /\ result.called
    /\ DistinctKeys(URLSearchParams(initData))
    => Verdict = prev.verdict

C5_Witness ==
    /\ rel = "reordered"
    /\ result.called
    /\ DistinctKeys(URLSearchParams(initData))
    /\ Len(URLSearchParams(initData)) = 3
    /\ Verdict.valid
    /\ prev.verdict.valid

\* C6: the verdict does not depend on the time of the call: the same payload
\* and secret presented later, also more than 24 hours after auth_date, get
\* the verdict they got before.
C6_TimeIrrelevant ==
    rel = "later" /\ result.called => Verdict = prev.verdict

Stale(data, t) ==
    LET authDate == ParamsGet(URLSearchParams(data), AUTH_DATE)
    IN  /\ Truthy(authDate)
        /\ ParseInt(authDate.s) # NaN
        /\ t - ParseInt(authDate.s).n > EXPIRATION_SECONDS

C6_Witness ==
    /\ rel = "later"
    /\ result.called
    /\ ~Stale(initData, prev.now)
    /\ Stale(initData, now)
    /\ Verdict.valid

\* C7: a payload without a hash pair, the empty payload included, gets the
\* missing-hash verdict.
C7_NoHashIsMissingHash ==
    result.called /\ ParamsGet(URLSearchParams(initData), HASH) = JSNull
        => Verdict = HashMissing

UserVerdicts == {"User data missing", "Invalid user data format"}

BlamesUser(verdict) == "error" \in DOMAIN verdict /\ verdict.error \in UserVerdicts

\* C11, as stated: the user verdicts (user data missing, invalid user data
\* format) are given only to payloads whose calculated hash equals the
\* supplied one, and every payload with a hash pair whose calculated hash
\* differs from the supplied one gets the hash-mismatch verdict.
C11_HashFirstUserSecond ==
    result.called =>
        /\ BlamesUser(Verdict) => CorrectlySigned(initData, botToken)
        /\ /\ ParamsGet(URLSearchParams(initData), HASH) # JSNull
           /\ ~CorrectlySigned(initData, botToken)
           => Verdict = HashMismatch

\* C11, amended: under a non-empty secret, the user verdicts are given only
\* to payloads whose calculated hash equals the supplied one, and every
\* payload whose (first) hash pair has a non-empty value that differs from
\* the calculated hash gets the hash-mismatch verdict, whether its user pair
\* is there, parsable, or neither.
C11_NonEmptyHashFirstUserSecond ==
    result.called /\ ~MissingArgument(initData, botToken) =>
        /\ BlamesUser(Verdict) => CorrectlySigned(initData, botToken)
        /\ /\ Truthy(ParamsGet(URLSearchParams(initData), HASH))
           /\ ~CorrectlySigned(initData, botToken)
           => Verdict = HashMismatch

C11_Witness ==
    /\ result.called
    /\ ~MissingArgument(initData, botToken)
    /\ Truthy(ParamsGet(URLSearchParams(initData), HASH))
    /\ ~CorrectlySigned(initData, botToken)
    /\ Truthy(UserText(initData))
    /\ ~HasParsableUser(initData)
    /\ Verdict = HashMismatch

\* the pairs of a list that are the last of their key, in the order given
RECURSIVE LastOfEachKey(_)
LastOfEachKey(params) ==
    IF params = <<>> THEN <<>>
    ELSE IF \E j \in 2..Len(params) : params[j].key = params[1].key
         THEN LastOfEachKey(Tail(params))
         ELSE <<params[1]>> \o LastOfEachKey(Tail(params))

\* C12: for a payload in which a key besides hash occurs more than once, the
\* data-check string has one line for that key, with the value of the last
\* pair of the key, and a claim returned from a repeated user key is the last
\* user value decoded.
C12_LastValueWins ==
    result.called /\ ~DistinctKeys(OtherPairs(initData)) =>
        LET last == LastOfEachKey(OtherPairs(initData))
        IN  /\ DataCheckString(OtherPairs(initData)) = Lines(SortedByKey(last))
            /\ Verdict.valid => Verdict.user = JsonParse(ParamsGet(last, USER).s).v

----------------------------------------------------------------------------
(* Claims about POST /api/auth/validate *)

Ok(r) == reqs[r].responses # <<>> /\ reqs[r].responses[1].status = 200

\* C1: whatever the interleaving of validate requests for an unknown user,
\* the new-user insert (userRef.set of a fresh profile) is carried out at
\* most once for that user.
C1_InsertAtMostOnce == \A id \in DocIds : hist.sets[id] <= 1

\* C8: of two requests handled one after the other with the same valid claim
\* of a user without a record, the first creates the record, and the second
\* leaves tokens and referralCode as the first stored them and writes
\* lastLogin anew, with the later server time of its own write.
C8_SecondKeepsFirst ==
    \A r1, r2 \in Requests :
        /\ r1 \in hist.of[r2].after
        /\ Ok(r1) /\ Ok(r2)
        /\ reqs[r1].telegramUser = reqs[r2].telegramUser
        /\ ~reqs[r1].userDoc.exists
        => LET first  == hist.of[r1].post.data
               second == hist.of[r2].post.data
           IN  /\ hist.of[r1].wrote = "set"
               /\ hist.of[r2].wrote = "update"
               /\ second.tokens = first.tokens
               /\ second.referralCode = first.referralCode
               /\ second.referralCode = reqs[r1].data.referralCode
               /\ second.createdAt = first.lastLogin
               /\ second.lastLogin.t = "timestamp"
               /\ second.lastLogin.at > first.lastLogin.at

C8_Witness ==
    \E r1, r2 \in Requests :
        /\ r1 \in hist.of[r2].after
        /\ Ok(r1) /\ Ok(r2)
        /\ reqs[r1].telegramUser = reqs[r2].telegramUser
        /\ ~reqs[r1].userDoc.exists
        /\ hist.of[r1].wrote = "set"
        /\ hist.of[r2].wrote = "update"
        /\ hist.of[r2].post.data.lastLogin.at > hist.of[r1].post.data.lastLogin.at

Written5 == {"lastLogin", "username", "firstName", "lastName", "languageCode"}
Kept6    == {"tokens", "referralCode", "referredBy", "referralsMade",
             "createdAt", "connectedWallet"}

\* C9: a request on the existing-user path writes lastLogin, username,
\* firstName, lastName and languageCode only: tokens, referralCode,
\* referredBy, referralsMade, createdAt and connectedWallet are right after
\* its update what they were right before it, also when another writer
\* changed them after the request read the document.
C9_UpdateKeepsTheRest ==
    \A r \in Requests :
        hist.of[r].wrote = "update" =>
            /\ DOMAIN reqs[r].data = Written5
            /\ \A k \in Kept6 :
                  Field(hist.of[r].post.data, k) = Field(hist.of[r].pre.data, k)
            /\ DOMAIN hist.of[r].post.data = DOMAIN hist.of[r].pre.data

C9_Witness ==
    \E r \in Requests :
        /\ hist.of[r].wrote = "update"
        /\ reqs[r].userDoc.data.tokens # hist.of[r].pre.data.tokens
        /\ hist.of[r].post.data.tokens = JSNum(10)
        /\ hist.of[r].post.data.lastLogin # hist.of[r].pre.data.lastLogin

StoreFailed(r) == reqs[r].pc = "done" /\ reqs[r].userIdString # "" /\ hist.of[r].wrote = "nothing"

\* C10: every request gets exactly one response: 400 without initData; else
\* 500 without a configured secret; else 401 with the verifier's reason as
\* error when verification fails; else 500 when the store fails; else 200
\* with the user profile.
C10_ResponsePrecedence ==
    \A r \in Requests :
        /\ Len(reqs[r].responses) <= 1
        /\ reqs[r].pc = "done" =>
            /\ Len(reqs[r].responses) = 1
            /\ LET data     == Prop(reqs[r].body, "initData")
                   verdict  == isValidTelegramData(data.s, envToken, now)
                   response == reqs[r].responses[1]
               IN  IF ~Truthy(data) THEN response.status = 400
                   ELSE IF envToken = "" THEN response.status = 500
                   ELSE IF ~verdict.valid
                        THEN /\ response.status = 401
                             /\ response.body.error = verdict.error
                   ELSE IF StoreFailed(r) THEN response.status = 500
                   ELSE /\ response.status = 200
                        /\ "user" \in DOMAIN response.body

\* the claim's key for each of the four name fields of a document
ClaimKey == [username |-> "username", firstName |-> "first_name",
             lastName |-> "last_name", languageCode |-> "language_code"]

NameFields == DOMAIN ClaimKey

NullWhenAbsent == {"username", "lastName"}

\* what the request wrote to a field, and what it claimed and had read for it
WrittenTo(r, f) == hist.of[r].post.data[f]
Claimed(r, f)   == Prop(reqs[r].telegramUser, ClaimKey[f])
StoredFor(r, f) == Field(reqs[r].userDoc.data, f)

\* C13, as stated: on the existing-user path each of username, firstName,
\* lastName and languageCode is written with the claim's value when the claim
\* has one, and otherwise with the value the request read from the store
\* (username and lastName with null when neither has a value).
C13_ClaimElseStored ==
    \A r \in Requests : \A f \in NameFields :
        hist.of[r].wrote = "update" =>
            /\ WrittenTo(r, f) = reqs[r].data[f]
            /\ WrittenTo(r, f) =
                  IF Claimed(r, f) \notin {Undefined, JSNull} THEN Claimed(r, f)
                  ELSE IF StoredFor(r, f) \notin {Undefined, JSNull} THEN StoredFor(r, f)
                  ELSE IF f \in NullWhenAbsent THEN JSNull
                  ELSE StoredFor(r, f)

\* C13, amended: on the existing-user path each of username, firstName,
\* lastName and languageCode is written with the claim's value when the claim
\* has a truthy one (a non-empty string), and otherwise with the value the
\* request read from the store (username and lastName with null when the
\* store has no truthy value either).
C13_TruthyClaimElseStored ==
    \A r \in Requests : \A f \in NameFields :
        hist.of[r].wrote = "update" =>
            /\ WrittenTo(r, f) = reqs[r].data[f]
            /\ WrittenTo(r, f) =
                  IF Truthy(Claimed(r, f)) THEN Claimed(r, f)
                  ELSE IF Truthy(StoredFor(r, f)) THEN StoredFor(r, f)
                  ELSE IF f \in NullWhenAbsent THEN JSNull
                  ELSE StoredFor(r, f)

C13_Witness ==
    \E r \in Requests :
        /\ hist.of[r].wrote = "update"
        /\ Claimed(r, "username") = JSStr(<<>>)
        /\ StoredFor(r, "username") = JSStr(<<"a", "n", "n">>)
        /\ WrittenTo(r, "username") = StoredFor(r, "username")
        /\ WrittenTo(r, "firstName") = JSStr(<<"A", "l">>)
        /\ StoredFor(r, "firstName") = JSStr(UserText4)
        /\ WrittenTo(r, "lastName") = JSNull

\* the request's store read or write has been issued and has not settled
InFlight(r) == reqs[r].pc \in {"get:pending", "update:pending", "set:pending"}

\* the request's store operation has settled and the handler has not gone on
Settled(r) ==
    reqs[r].pc \in {"get:resolved", "get:rejected", "update:resolved",
                    "set:resolved", "update:rejected", "set:rejected"}

\* the request issued a write (it built the data of one) that did not commit
WriteFailed(r) ==
    reqs[r].pc = "done" /\ reqs[r].data # <<>> /\ hist.of[r].wrote = "nothing"

\* C14: a request is answered 200 only after its own write has committed
\* (update when the document it read existed, set when it did not); it has no
\* response while its read or write is in flight or just settled; and a
\* request whose write failed is answered 500.
C14_OkOnlyAfterWrite ==
    \A r \in Requests :
        /\ Ok(r) =>
              /\ reqs[r].pc = "done"
              /\ hist.of[r].wrote = (IF Exists(reqs[r].userDoc) THEN "update" ELSE "set")
              /\ hist.of[r].post.exists
              /\ \A k \in DOMAIN reqs[r].data \ {"lastLogin", "createdAt"} :
                    hist.of[r].post.data[k] = reqs[r].data[k]
        /\ InFlight(r) \/ Settled(r) => reqs[r].responses = <<>>
        /\ WriteFailed(r) =>
              /\ Len(reqs[r].responses) = 1
              /\ reqs[r].responses[1].status = 500

C14_Witness ==
    \E r1, r2 \in Requests :
        /\ Ok(r1)
        /\ hist.of[r1].wrote = "set"
        /\ WriteFailed(r2)
        /\ Exists(reqs[r2].userDoc)
        /\ reqs[r2].responses[1].status = 500

\* the bodies that carry a payload, and the verdict of the verifier on each
\* under each bot token
WithPayload == {b \in Bodies : Truthy(Prop(b, "initData"))}

VerdictOn ==
    [b \in WithPayload, token \in Tokens |->
        isValidTelegramData(Prop(b, "initData").s, token, FirstTime)]

\* the verifier returned valid = true with a claim for the request's payload
Admitted(r) ==
    /\ reqs[r].body \in WithPayload
    /\ envToken # ""
    /\ VerdictOn[reqs[r].body, envToken].valid
    /\ VerdictOn[reqs[r].body, envToken].user \notin {JSNull, Undefined}
    /\ reqs[r].validationResult = VerdictOn[reqs[r].body, envToken]

\* the request has used the store: a read or write issued, settled or done
UsedStore(r) ==
    \/ InFlight(r) \/ Settled(r)
    \/ hist.of[r].read # {} \/ hist.of[r].touched # {}
    \/ hist.of[r].wrote # "nothing"

\* answered before the store: 400, 401, or the 500 of a missing bot token
Refused(r) ==
    /\ reqs[r].responses # <<>>
    /\ \/ reqs[r].responses[1].status \in {400, 401}
       \/ reqs[r].responses[1].body.message = "Server configuration error"

\* String(claim.id) of the claim embedded in each payload, the ids of the
\* claims being numbers
ClaimedIdOf ==
    [b \in WithPayload |->
        LET claim == EmbeddedClaim(Prop(b, "initData").s)
        IN  IF claim.t = "object" THEN ToString(claim.f["id"].n) ELSE "none"]

ClaimedId(r) == ClaimedIdOf[reqs[r].body]

\* C15: a request uses the store only after the verifier returned valid =
\* true with a claim; a request answered 400, 401 or with the configuration
\* 500 has read and changed no document; and a request that uses the store
\* reads and changes only the document named String(claim.id).
C15_StoreOnlyForOwnClaim ==
    \A r \in Requests :
        /\ UsedStore(r) => Admitted(r)
        /\ Refused(r) => ~UsedStore(r)
        /\ UsedStore(r) =>
              /\ hist.of[r].read \subseteq {ClaimedId(r)}
              /\ hist.of[r].touched \subseteq {ClaimedId(r)}
              /\ hist.of[r].wrote # "nothing" => hist.of[r].touched = {ClaimedId(r)}

C15_Witness ==
    \E r1, r2 \in Requests :
        /\ Ok(r1)
        /\ hist.of[r1].read = {"2"}
        /\ hist.of[r1].touched = {"2"}
        /\ ~users["1"].exists
        /\ Refused(r2)
        /\ reqs[r2].responses[1].status = 401

====
